---- MODULE Spec2Model ----
(***************************************************************************)
(* A model of pycrf/modules/char_lstm.py: the CharLSTM module, which runs  *)
(* every word of a list through one torch.nn.LSTM at batch size 1 and      *)
(* stacks the flattened final hidden states.                               *)
(*                                                                         *)
(* Tensors are contiguous row-major tensors: a shape and a flat data list. *)
(* The LSTM's floating-point gates are abstracted by integer arithmetic    *)
(* modulo Modulus; its structure (layers, directions, the zero initial     *)
(* state, inter-layer dropout in training mode, the [K x 1 x H] layout of  *)
(* the final states, its argument checks) follows torch.nn.LSTM.           *)
(***************************************************************************)
EXTENDS Integers, Sequences, FiniteSets, TLC

VARIABLES
    args,       \* the constructor arguments of the attempted construction
    enc,        \* the CharLSTM object: n_chars, output_size, rnn
    training,   \* nn.Module.training of the CharLSTM (and of its rnn)
    rng,        \* the state of torch's global random generator
    emptySeq,   \* what this build's LSTM does with a zero-length sequence
    pc,         \* "new", "failed", "idle", "loop", "done"
    inputs,     \* forward's argument
    idx,        \* position of the for loop of forward (1-based)
    hiddens,    \* forward's local list
    state,      \* forward's local: the (h_n, c_n) of the last rnn call
    rnnLog,     \* the calls of self.rnn during the current call: the
                \* tensor handed over and the h_n that came back
    result,     \* what the current call returned or raised
    memo        \* an earlier call of at most one word kept by the caller

vars == <<args, enc, training, rng, emptySeq, pc, inputs, idx, hiddens,
          state, rnnLog, result, memo>>

\* ------------------------------------------------------------- bounds
MaxWords == 2       \* longest input list
Modulus == 5        \* values of the abstracted arithmetic are 0..Modulus-1
RngPeriod == 2      \* number of states of the abstracted random generator

\* ------------------------------------------------------------- tensors
RECURSIVE SumSeq(_)
SumSeq(s) == IF s = <<>> THEN 0 ELSE Head(s) + SumSeq(Tail(s))

RECURSIVE Concat(_)
Concat(ss) == IF ss = <<>> THEN <<>> ELSE Head(ss) \o Concat(Tail(ss))

\* a sequence given as a function, as an explicit tuple
AsTuple(s) == SubSeq(s, 1, Len(s))

Reverse(s) == AsTuple([t \in 1..Len(s) |-> s[Len(s) + 1 - t]])

Tensor(shape, data) == [shape |-> shape, data |-> data]

\* tensor.unsqueeze(0)
Unsqueeze0(t) == Tensor(<<1>> \o t.shape, t.data)

\* tensor.squeeze(): every dimension of size 1 is removed
Squeeze(t) == Tensor(SelectSeq(t.shape, LAMBDA d : d # 1), t.data)

\* a variant of view(-1) that leaves the shape as it is
ViewFlatMissing(t) == t

\* tensor.view(-1)
View1D(t) == Tensor(<<Len(t.data)>>, t.data)

\* t[k][b][j] of a 3-D tensor, 0-based
At3(t, k, b, j) == t.data[(k * t.shape[2] + b) * t.shape[3] + j + 1]

\* torch.cat(ts, dim=0)
Cat0(ts) ==
    IF ts = <<>> THEN [raised |-> TRUE, cause |-> "cat_empty_list"]
    ELSE IF \E t \in 1..Len(ts) :
                \/ ts[t].shape = <<>>
                \/ Len(ts[t].shape) # Len(ts[1].shape)
                \/ Tail(ts[t].shape) # Tail(ts[1].shape)
         THEN [raised |-> TRUE, cause |-> "cat_sizes"]
    ELSE [raised |-> FALSE,
          value |-> Tensor(
              <<SumSeq([t \in 1..Len(ts) |-> ts[t].shape[1]])>>
                  \o Tail(ts[1].shape),
              Concat([t \in 1..Len(ts) |-> ts[t].data]))]

\* ------------------------------------------------------------- the LSTM
\* a variant of output_size that is not doubled for two directions
NoDoubling(layers, hidden_size, bidirectional) == layers * hidden_size

\* self.output_size = layers * hidden_size; if bidirectional: *= 2
OutputSize(layers, hidden_size, bidirectional) ==
    IF bidirectional THEN (layers * hidden_size) * 2 ELSE layers * hidden_size

Directions(rnn) == IF rnn.bidirectional THEN 2 ELSE 1

\* torch.nn.LSTM(...): what the constructor rejects. dropout is in percent
\* and may be 0 <= dropout <= 1, both ends included; hidden_size and
\* num_layers must be greater than zero; input_size is not checked, but
\* weights of a negative width cannot be allocated.
LSTMInit(input_size, hidden_size, num_layers, dropout) ==
    IF dropout < 0 \/ dropout > 100 THEN "dropout"
    ELSE IF hidden_size <= 0 THEN "hidden_size"
    ELSE IF num_layers <= 0 THEN "num_layers"
    ELSE IF input_size < 0 THEN "negative_dimension"
    ELSE "ok"

\* the learnable parameters, as functions of the seed drawn at construction
Wih(theta, k, j, m) == (theta + k + j + m) % Modulus
Whh(theta, k, j, m) == (theta + 2 * k + j + 2 * m + 1) % Modulus
Bias(theta, k, j) == (theta * j + k) % Modulus

Pre(theta, k, j, x, h) ==
    (SumSeq([m \in 1..Len(x) |-> x[m] * Wih(theta, k, j, m)])
     + SumSeq([m \in 1..Len(h) |-> h[m] * Whh(theta, k, j, m)])
     + Bias(theta, k, j)) % Modulus

\* one time step of the cell k = layer * directions + direction
CellStep(theta, k, x, hc) ==
    LET H == Len(hc.h)
        pre == AsTuple([j \in 1..H |-> Pre(theta, k, j, x, hc.h)])
        c2 == AsTuple([j \in 1..H |-> (hc.c[j] + pre[j]) % Modulus])
        h2 == AsTuple([j \in 1..H |-> (2 * c2[j] + pre[j] + 1) % Modulus])
    IN  [h |-> h2, c |-> c2]

\* the cell over the whole sequence xs, from hc: the outputs and the last state
RECURSIVE Scan(_, _, _, _, _)
Scan(theta, k, xs, hc, outs) ==
    IF xs = <<>> THEN [outs |-> outs, h |-> hc.h, c |-> hc.c]
    ELSE LET n == CellStep(theta, k, Head(xs), hc)
         IN  Scan(theta, k, Tail(xs), n, Append(outs, n.h))

\* one direction of one layer; the backward direction reads xs reversed and
\* its outputs are aligned with the time steps of xs
RunDir(theta, k, backward, xs, hc) ==
    IF backward
    THEN LET r == Scan(theta, k, Reverse(xs), hc, <<>>)
         IN  [outs |-> Reverse(r.outs), h |-> r.h, c |-> r.c]
    ELSE Scan(theta, k, xs, hc, <<>>)

\* a variant in which dropout is applied in evaluation mode too
DropoutAtInference(rnn, train) == rnn.dropout > 0 /\ rnn.num_layers > 1

\* dropout is applied between stacked layers, in training mode only
DropoutActive(rnn, train) ==
    train /\ rnn.dropout > 0 /\ rnn.num_layers > 1

\* F.dropout on the output sequence of a layer: the mask is drawn from the
\* generator state g; kept entries are scaled by 1 / (1 - p)
ApplyDropout(xs, p, g) ==
    AsTuple([t \in 1..Len(xs) |->
        AsTuple([f \in 1..Len(xs[t]) |->
            IF p < 100 /\ (g + (t - 1) * Len(xs[t]) + (f - 1)) % 2 = 0
            THEN (xs[t][f] * (100 \div (100 - p))) % Modulus
            ELSE 0])])

\* a variant in which the state of the previous word is passed on as hx
CarriedState(prev, k, H) ==
    IF prev = <<>> THEN [h |-> AsTuple([j \in 1..H |-> 0]),
                         c |-> AsTuple([j \in 1..H |-> 0])]
    ELSE [h |-> SubSeq(prev[1].data, k * H + 1, (k + 1) * H),
          c |-> SubSeq(prev[2].data, k * H + 1, (k + 1) * H)]

\* the initial (h_0, c_0) of cell k: self.rnn is called without hx, so zeros,
\* whatever the previous (h_n, c_n) was
InitialState(prev, k, H) ==
    [h |-> AsTuple([j \in 1..H |-> 0]), c |-> AsTuple([j \in 1..H |-> 0])]

\* the layers l .. num_layers-1 over xs; hn and cn collect the final states
\* in the order k = layer * directions + direction
RECURSIVE Stack(_, _, _, _, _, _, _, _)
Stack(rnn, l, xs, prev, train, g, hn, cn) ==
    IF l = rnn.num_layers
    THEN [out |-> xs, hn |-> hn, cn |-> cn, rng |-> g]
    ELSE
      LET D == Directions(rnn)
          H == rnn.hidden_size
          fw == RunDir(rnn.theta, l * D, FALSE, xs,
                       InitialState(prev, l * D, H))
          bw == RunDir(rnn.theta, l * D + 1, TRUE, xs,
                       InitialState(prev, l * D + 1, H))
          out == IF D = 2
                 THEN AsTuple([t \in 1..Len(xs) |-> fw.outs[t] \o bw.outs[t]])
                 ELSE fw.outs
          drop == DropoutActive(rnn, train) /\ l < rnn.num_layers - 1
          nxt == IF drop THEN ApplyDropout(out, rnn.dropout, g) ELSE out
          g2 == IF drop /\ rnn.dropout < 100 THEN (g + 1) % RngPeriod ELSE g
          hn2 == IF D = 2 THEN hn \o <<fw.h, bw.h>> ELSE Append(hn, fw.h)
          cn2 == IF D = 2 THEN cn \o <<fw.c, bw.c>> ELSE Append(cn, fw.c)
      IN  Stack(rnn, l + 1, nxt, prev, train, g2, hn2, cn2)

\* self.rnn(x) with batch_first=True: x is [1 x length x input_size]; the
\* result is the output sequence and the final (h_n, c_n). The
\* width is checked before anything runs; what a zero-length sequence does
\* is the build's (emptySeq): it raises, or the initial state comes back.
LSTMForward(rnn, x, prev, train, g, onEmpty) ==
    LET K == rnn.num_layers * Directions(rnn)
        H == rnn.hidden_size
        L == x.shape[2]
        W == x.shape[3]
        xs == AsTuple([t \in 1..L |-> SubSeq(x.data, (t - 1) * W + 1, t * W)])
        zero == Tensor(<<K, 1, H>>, AsTuple([p \in 1..(K * H) |-> 0]))
    IN  IF W # rnn.input_size
        THEN [raised |-> TRUE, cause |-> "input_size", rng |-> g]
        ELSE IF L = 0
        THEN IF onEmpty = "raise"
             THEN [raised |-> TRUE, cause |-> "sequence_length", rng |-> g]
             ELSE [raised |-> FALSE, rng |-> g,
                   out |-> Tensor(<<1, 0, Directions(rnn) * H>>, <<>>),
                   h |-> zero, c |-> zero]
        ELSE LET r == Stack(rnn, 0, xs, prev, train, g, <<>>, <<>>)
             IN  [raised |-> FALSE, rng |-> r.rng,
                  out |-> Tensor(<<1, L, Directions(rnn) * H>>,
                                 Concat(r.out)),
                  h |-> Tensor(<<K, 1, H>>, Concat(r.hn)),
                  c |-> Tensor(<<K, 1, H>>, Concat(r.cn))]

\* ------------------------------------------------------------- inputs
NCharsArgs == {-1, 2}
HiddenArgs == {0, 1, 2}
LayersArgs == {0, 1, 2}
DropoutArgs == {0, 50, 100, 150}
Seeds == {1}

WordA == Tensor(<<1, 2>>, <<1, 0>>)
WordB == Tensor(<<2, 2>>, <<0, 1, 1, 0>>)
WordWide == Tensor(<<1, 3>>, <<1, 0, 0>>)
WordEmpty == Tensor(<<0, 2>>, <<>>)
Words == {WordA, WordB, WordWide, WordEmpty}

InputLists == UNION {[1..n -> Words] : n \in 0..MaxWords}

NoArgs == [n_chars |-> 0, hidden_size |-> 0, bidirectional |-> FALSE,
           layers |-> 0, dropout |-> 0]
NoRnn == [input_size |-> 0, hidden_size |-> 0, num_layers |-> 0,
          dropout |-> 0, bidirectional |-> FALSE, theta |-> 0]
NoEnc == [n_chars |-> 0, output_size |-> 0, rnn |-> NoRnn]
NoTensor == Tensor(<<>>, <<>>)
NoResult == [status |-> "none", cause |-> "", value |-> NoTensor]
NoState == <<>>

\* ------------------------------------------------------------- CharLSTM
Init ==
    /\ args = NoArgs
    /\ enc = NoEnc
    /\ training = TRUE
    /\ rng = 0
    /\ emptySeq \in {"raise", "degenerate"}
    /\ pc = "new"
    /\ inputs = <<>>
    /\ idx = 1
    /\ hiddens = <<>>
    /\ state = NoState
    /\ rnnLog = <<>>
    /\ result = NoResult
    /\ memo = <<>>

\* CharLSTM(n_chars, hidden_size, bidirectional, layers, dropout): the
\* attributes are set, then the LSTM is built; if that raises, no object
\* exists.
Construct(n_chars, hidden_size, bidirectional, layers, dropout, theta) ==
    /\ pc = "new"
    /\ args' = [n_chars |-> n_chars, hidden_size |-> hidden_size,
                bidirectional |-> bidirectional, layers |-> layers,
                dropout |-> dropout]
    /\ IF LSTMInit(n_chars, hidden_size, layers, dropout) = "ok"
       THEN /\ enc' = [n_chars |-> n_chars,
                       output_size |->
                           OutputSize(layers, hidden_size, bidirectional),
                       rnn |-> [input_size |-> n_chars,
                                hidden_size |-> hidden_size,
                                num_layers |-> layers,
                                dropout |-> dropout,
                                bidirectional |-> bidirectional,
                                theta |-> theta]]
            /\ pc' = "idle"
       ELSE /\ enc' = NoEnc
            /\ pc' = "failed"
    /\ UNCHANGED <<training, rng, emptySeq, inputs, idx, hiddens, state,
                   rnnLog, result, memo>>

\* nn.Module.eval() and nn.Module.train(), called by the harness between
\* calls of forward
Eval ==
    /\ pc = "idle"
    /\ training
    /\ training' = FALSE
    /\ UNCHANGED <<args, enc, rng, emptySeq, pc, inputs, idx, hiddens, state,
                   rnnLog, result, memo>>

Train ==
    /\ pc = "idle"
    /\ ~training
    /\ training' = TRUE
    /\ UNCHANGED <<args, enc, rng, emptySeq, pc, inputs, idx, hiddens, state,
                   rnnLog, result, memo>>

\* forward(inputs) is entered: hiddens = []
Forward(ws) ==
    /\ pc = "idle"
    /\ pc' = "loop"
    /\ inputs' = ws
    /\ idx' = 1
    /\ hiddens' = <<>>
    /\ state' = NoState
    /\ rnnLog' = <<>>
    /\ result' = NoResult
    /\ UNCHANGED <<args, enc, training, rng, emptySeq, memo>>

\* a variant that takes the cell state c_n, state[1]
StateCell(st) == st[2]

\* hidden = state[0]
StateHidden(st) == st[1]

\* a variant that puts the new row in front
ListPrepend(list, x) == <<x>> \o list

\* hiddens.append(hidden)
ListAppend(list, x) == Append(list, x)

\* one iteration of the for loop (the values are bound over singleton sets,
\* which evaluates each of them once)
LoopBody ==
    /\ pc = "loop"
    /\ idx <= Len(inputs)
    /\ \E x \in {Unsqueeze0(inputs[idx])}, rnn \in {enc.rnn}, prev \in {state},
          train \in {training}, g \in {rng}, onEmpty \in {emptySeq} :
         \E r \in {LSTMForward(rnn, x, prev, train, g, onEmpty)} :
           /\ rnnLog' = Append(rnnLog,
                  [x |-> x, raised |-> r.raised,
                   h |-> IF r.raised THEN NoTensor ELSE r.h])
           /\ rng' = r.rng
           /\ IF r.raised
              THEN /\ result' = [status |-> "raised", cause |-> r.cause,
                                 value |-> NoTensor]
                   /\ pc' = "done"
                   /\ UNCHANGED <<idx, hiddens, state>>
              ELSE \E st \in {<<r.h, r.c>>} :
                       /\ state' = st
                       /\ hiddens' = ListAppend(hiddens,
                              Unsqueeze0(View1D(Squeeze(StateHidden(st)))))
                       /\ idx' = idx + 1
                       /\ UNCHANGED <<result, pc>>
    /\ UNCHANGED <<args, enc, training, emptySeq, inputs, memo>>

\* hiddens = torch.cat(hiddens, dim=0); return hiddens
ConcatReturn ==
    /\ pc = "loop"
    /\ idx > Len(inputs)
    /\ LET c == Cat0(hiddens)
       IN  result' = IF c.raised
                     THEN [status |-> "raised", cause |-> c.cause,
                           value |-> NoTensor]
                     ELSE [status |-> "returned", cause |-> "",
                           value |-> c.value]
    /\ pc' = "done"
    /\ UNCHANGED <<args, enc, training, rng, emptySeq, inputs, idx, hiddens,
                   state, rnnLog, memo>>

\* whether the call that just ended ran with inter-layer dropout switched on
DropoutOn == training /\ enc.rnn.dropout > 0 /\ enc.rnn.num_layers > 1

\* the caller keeps what a call of at most one word gave
Remember ==
    /\ pc = "done"
    /\ Len(inputs) <= 1
    /\ memo' = <<[inputs |-> inputs, result |-> result,
                  dropoutOn |-> DropoutOn]>>
    /\ memo' # memo
    /\ UNCHANGED <<args, enc, training, rng, emptySeq, pc, inputs, idx,
                   hiddens, state, rnnLog, result>>

\* the call is over: its locals are gone
Return ==
    /\ pc = "done"
    /\ pc' = "idle"
    /\ inputs' = <<>>
    /\ idx' = 1
    /\ hiddens' = <<>>
    /\ state' = NoState
    /\ rnnLog' = <<>>
    /\ result' = NoResult
    /\ UNCHANGED <<args, enc, training, rng, emptySeq, memo>>

Next ==
    \/ \E n \in NCharsArgs, h \in HiddenArgs, b \in BOOLEAN,
          l \in LayersArgs, d \in DropoutArgs, th \in Seeds :
            Construct(n, h, b, l, d, th)
    \/ Eval
    \/ Train
    \/ \E ws \in InputLists : Forward(ws)
    \/ LoopBody
    \/ ConcatReturn
    \/ Remember
    \/ Return

Spec == Init /\ [][Next]_vars

\* ------------------------------------------------------------- properties
Built == pc \in {"idle", "loop", "done"}
Returned == pc = "done" /\ result.status = "returned"

\* a word matrix forward can encode: [word_length x n_chars], word_length >= 1
ValidWord(w) ==
    Len(w.shape) = 2 /\ w.shape[1] >= 1 /\ w.shape[2] = enc.n_chars

\* row i (1-based) of a 2-D tensor
Row(t, i) == SubSeq(t.data, (i - 1) * t.shape[2] + 1, i * t.shape[2])

\* C1: for a non-empty list of valid words, forward returns a 2-D tensor with
\* len(inputs) rows; the rnn was called once per word, in order, on that
\* word, and row i is the final hidden state that call i gave.
C1_RowsInInputOrder ==
    (pc = "done" /\ inputs # <<>>
        /\ \A i \in 1..Len(inputs) : ValidWord(inputs[i]))
    => /\ result.status = "returned"
       /\ Len(result.value.shape) = 2
       /\ result.value.shape[1] = Len(inputs)
       /\ Len(rnnLog) = Len(inputs)
       /\ \A i \in 1..Len(inputs) :
            /\ rnnLog[i].x = Unsqueeze0(inputs[i])
            /\ ~rnnLog[i].raised
            /\ Row(result.value, i) = rnnLog[i].h.data

C1_Witness ==
    /\ Returned
    /\ Len(inputs) = 2
    /\ inputs[1] # inputs[2]
    /\ \A i \in 1..2 : ValidWord(inputs[i])
    /\ Row(result.value, 1) # Row(result.value, 2)

\* C2: the stored output_size is layers * hidden_size * (2 if bidirectional
\* else 1) for every construction with n_chars > 0, hidden_size > 0 and
\* layers >= 1.
C2_OutputSizeFormula ==
    (Built /\ args.n_chars > 0 /\ args.hidden_size > 0 /\ args.layers >= 1)
    => enc.output_size =
         args.layers * args.hidden_size
             * (IF args.bidirectional THEN 2 ELSE 1)

C2_Witness ==
    /\ Built
    /\ args.n_chars > 0
    /\ args.bidirectional
    /\ args.layers = 2
    /\ args.hidden_size = 2
    /\ enc.output_size = 8

\* C3: every row forward builds and every row of what it returns has exactly
\* output_size entries, also when squeeze() removes more than the batch
\* dimension (hidden_size = 1, or one layer and one direction).
C3_RowWidth ==
    /\ Built =>
         \A i \in 1..Len(hiddens) : hiddens[i].shape = <<1, enc.output_size>>
    /\ Returned =>
         /\ Len(result.value.shape) = 2
         /\ result.value.shape[2] = enc.output_size
         /\ Len(result.value.data) = result.value.shape[1] * enc.output_size

C3_Witness ==
    /\ Returned
    /\ Len(inputs) = 2
    /\ enc.rnn.hidden_size = 1
    /\ enc.rnn.num_layers = 1
    /\ ~enc.rnn.bidirectional
    /\ Squeeze(state[1]).shape = <<>>

\* C4: forward([]) returns an empty result of zero rows and output_size
\* columns, and does not raise.
C4_EmptyListReturnsEmpty ==
    (pc = "done" /\ inputs = <<>>)
    => /\ result.status = "returned"
       /\ result.value.shape = <<0, enc.output_size>>

\* C5: if some word's column count differs from n_chars, the call fails with
\* the width error and returns nothing.
C5_BadWidthFailsWithShapeMismatch ==
    (pc = "done"
        /\ \E i \in 1..Len(inputs) : inputs[i].shape[2] # enc.n_chars)
    => /\ result.status = "raised"
       /\ result.cause = "input_size"
       /\ result.value = NoTensor

\* C6: no encoder is constructed with n_chars <= 0, hidden_size <= 0,
\* layers < 1 or dropout outside [0,1): such a construction fails.
C6_InvalidConfigurationRejected ==
    (pc # "new"
        /\ \/ args.n_chars <= 0
           \/ args.hidden_size <= 0
           \/ args.layers < 1
           \/ args.dropout < 0
           \/ args.dropout >= 100)
    => pc = "failed"

\* C7: a word of length 0 is never handed to the recurrent primitive.
C7_EmptyWordNeverReachesRnn ==
    \A k \in 1..Len(rnnLog) : rnnLog[k].x.shape[2] > 0

\* the remembered call was a returned call of one word, and the call that
\* just ended returned
HaveBoth ==
    /\ Returned
    /\ memo # <<>>
    /\ Len(memo[1].inputs) = 1
    /\ memo[1].result.status = "returned"

\* C8 as stated: a word's row is the same in every call and at every
\* position, whatever the other words are.
C8_RowDependsOnlyOnWord ==
    HaveBoth =>
        \A i \in 1..Len(inputs) :
            inputs[i] = memo[1].inputs[1]
            => Row(result.value, i) = Row(memo[1].result.value, 1)

\* C8 amended: the same, for calls made with inter-layer dropout off
\* (evaluation mode, dropout = 0, or a single layer).
C8_RowDependsOnlyOnWordNoDropout ==
    (HaveBoth /\ ~DropoutOn /\ ~memo[1].dropoutOn) =>
        \A i \in 1..Len(inputs) :
            inputs[i] = memo[1].inputs[1]
            => Row(result.value, i) = Row(memo[1].result.value, 1)

C8_Witness ==
    /\ HaveBoth
    /\ ~DropoutOn
    /\ ~memo[1].dropoutOn
    /\ enc.rnn.dropout = 50
    /\ enc.rnn.num_layers = 2
    /\ Len(inputs) = 2
    /\ inputs[2] = memo[1].inputs[1]
    /\ inputs[1] # inputs[2]
    /\ Row(result.value, 1) # Row(result.value, 2)

\* forward leaves the encoder's attributes and parameters alone
ForwardKeepsEncoder ==
    [][(pc \in {"loop", "done"}) => (enc' = enc)]_vars

\* C9 as stated: two calls with the same input give the same outcome,
\* whatever was called in between.
C9_SameInputSameOutput ==
    (pc = "done" /\ memo # <<>> /\ memo[1].inputs = inputs)
    => result = memo[1].result

\* C9 amended: forward never changes n_chars, output_size or the parameters,
\* and two calls with the same input, both made with inter-layer dropout off,
\* give the same outcome.
C9_StatelessNoDropout ==
    /\ ForwardKeepsEncoder
    /\ []((pc = "done" /\ memo # <<>> /\ memo[1].inputs = inputs
              /\ ~DropoutOn /\ ~memo[1].dropoutOn)
          => result = memo[1].result)

C9_Witness ==
    /\ pc = "done"
    /\ memo # <<>>
    /\ memo[1].inputs = inputs
    /\ Len(inputs) = 1
    /\ result.status = "returned"
    /\ ~training
    /\ ~memo[1].dropoutOn
    /\ enc.rnn.dropout = 50
    /\ enc.rnn.num_layers = 2
    /\ rng # 0

\* C10: entry k * hidden_size + j of a word's row is h_n[k][0][j] of the
\* final hidden state h_n, of shape [(layers * directions) x 1 x hidden_size],
\* that the rnn gave for that word.
C10_RowIsFlattenedFinalHidden ==
    Returned =>
        \A i \in 1..Len(inputs) :
            LET K == enc.rnn.num_layers * Directions(enc.rnn)
                H == enc.rnn.hidden_size
                h == rnnLog[i].h
            IN  /\ h.shape = <<K, 1, H>>
                /\ \A k \in 0..(K - 1), j \in 0..(H - 1) :
                     result.value.data[(i - 1) * enc.output_size
                                       + k * H + j + 1]
                         = At3(h, k, 0, j)

C10_Witness ==
    /\ Returned
    /\ Len(inputs) = 2
    /\ enc.rnn.num_layers = 2
    /\ enc.rnn.bidirectional
    /\ enc.rnn.hidden_size = 2
    /\ state[1] # state[2]

====
